---- MODULE Spec2Model ----
(***************************************************************************)
(* Model of the agentic RAG school assistant: the per-subject agent        *)
(* (agents/base_agent.py), the routing meta agent (agents/meta_agent.py),  *)
(* the chat memory (core/memory.py) and the session handling of app.py.    *)
(*                                                                         *)
(* Text is modelled as a sequence of one-character strings, so that the    *)
(* substring tests, the regular expressions and the expression evaluation  *)
(* of the code are computed, not assumed.  Fixed message texts produced by *)
(* the code are kept as single pieces of such a sequence.                  *)
(***************************************************************************)
EXTENDS Integers, Sequences, FiniteSets, TLC

VARIABLES
    agents,              \* st.session_state.agents: the subjects with a registered agent
    textbooks_uploaded,  \* st.session_state.textbooks_uploaded
    memory,              \* memory[S]: chat_memory.messages of the registered agent of S
    uploaded_file_hashes,\* st.session_state.uploaded_file_hashes
    db,                  \* the subjects whose ./db/{subject} and textbook PDF exist on disk
    calls,               \* history: calls[S] = the (question, answer) pairs query returned on that agent
    last,                \* observation of the last query / route call
    fnIn,                \* input of the pure function under study (function specifications)
    fnOut                \* its result

vars == <<agents, textbooks_uploaded, uploaded_file_hashes, db, memory, calls, last, fnIn, fnOut>>

---------------------------------------------------------------------------
(* Bounds of the model *)

\* longest generated text handed to the equation solver
MaxEqLen == 4
\* total number of messages kept in the registered agents' logs
MaxLog == 2
\* the most words of a generated sub-question
MaxWords == 3
\* the most chunks the retriever returns in the calls of QuerySpec
MaxDocs == 2

---------------------------------------------------------------------------
(* Text helpers: Python str operations on sequences of characters *)

Digits == <<"0", "1", "2", "3", "4", "5", "6", "7", "8", "9">>

UpperCase == <<"A","B","C","D","E","F","G","H","I","J","K","L","M",
               "N","O","P","Q","R","S","T","U","V","W","X","Y","Z">>

LowerCase == <<"a","b","c","d","e","f","g","h","i","j","k","l","m",
               "n","o","p","q","r","s","t","u","v","w","x","y","z">>

IsDigit(c) == \E i \in 1..10 : Digits[i] = c

DigitValue(c) == (CHOOSE i \in 1..10 : Digits[i] = c) - 1

IsSpace(c) == c \in {" ", "\n", "\t"}

\* \w of the re module
IsWordChar(c) ==
    \/ IsDigit(c)
    \/ c = "_"
    \/ \E i \in 1..26 : UpperCase[i] = c \/ LowerCase[i] = c

LowerChar(c) ==
    IF \E i \in 1..26 : UpperCase[i] = c
    THEN LowerCase[CHOOSE i \in 1..26 : UpperCase[i] = c]
    ELSE c

\* str.lower()
Lower(s) == [i \in 1..Len(s) |-> LowerChar(s[i])]

\* sub in s
Contains(s, sub) ==
    \E i \in 0..(Len(s) - Len(sub)) : SubSeq(s, i + 1, i + Len(sub)) = sub

\* any(word in s for word in words)
ContainsAny(s, words) == \E w \in words : Contains(s, w)

FirstInk(s) == CHOOSE i \in 1..Len(s) : ~IsSpace(s[i]) /\ \A j \in 1..(i - 1) : IsSpace(s[j])

LastInk(s) == CHOOSE i \in 1..Len(s) : ~IsSpace(s[i]) /\ \A j \in (i + 1)..Len(s) : IsSpace(s[j])

\* str.strip()
Strip(s) ==
    IF \A i \in 1..Len(s) : IsSpace(s[i]) THEN << >>
    ELSE SubSeq(s, FirstInk(s), LastInk(s))

\* len(s.split()): the number of maximal runs of non-whitespace
WordCount(s) ==
    Cardinality({i \in 1..Len(s) :
                    ~IsSpace(s[i]) /\ (i = 1 \/ IsSpace(s[i - 1]))})

\* s.replace(old, new) for a one-character old
RECURSIVE ReplaceChar(_, _, _)
ReplaceChar(s, old, new) ==
    IF s = << >> THEN << >>
    ELSE (IF Head(s) = old THEN new ELSE <<Head(s)>>)
         \o ReplaceChar(Tail(s), old, new)

\* str(n) for an integer
RECURSIVE NatStr(_)
NatStr(n) ==
    IF n < 10 THEN <<Digits[n + 1]>>
    ELSE NatStr(n \div 10) \o <<Digits[(n % 10) + 1]>>

IntStr(n) == IF n < 0 THEN <<"-">> \o NatStr(0 - n) ELSE NatStr(n)

Abs(n) == IF n < 0 THEN 0 - n ELSE n

RECURSIVE Gcd(_, _)
Gcd(a, b) == IF b = 0 THEN a ELSE Gcd(b, a % b)

---------------------------------------------------------------------------
(* Polynomials in x with integer coefficients: <<c0, c1, ...>>, no trailing *)
(* zero.  These are the values of the expressions handed to eval.           *)

RECURSIVE Trim(_)
Trim(p) ==
    IF p = << >> THEN << >>
    ELSE IF p[Len(p)] = 0 THEN Trim(SubSeq(p, 1, Len(p) - 1))
    ELSE p

Coef(p, i) == IF i \in 1..Len(p) THEN p[i] ELSE 0

MaxOf(a, b) == IF a > b THEN a ELSE b

PAdd(p, q) == Trim([i \in 1..MaxOf(Len(p), Len(q)) |-> Coef(p, i) + Coef(q, i)])

PNeg(p) == [i \in 1..Len(p) |-> 0 - p[i]]

RECURSIVE ConvSum(_, _, _, _)
ConvSum(p, q, k, i) ==
    IF i > Len(p) THEN 0
    ELSE p[i] * Coef(q, k - i + 1) + ConvSum(p, q, k, i + 1)

PMul(p, q) ==
    IF p = << >> \/ q = << >> THEN << >>
    ELSE Trim([k \in 1..(Len(p) + Len(q) - 1) |-> ConvSum(p, q, k, 1)])

PConst(n) == Trim(<<n>>)

PX == <<0, 1>>

---------------------------------------------------------------------------
(* Python's eval on the arithmetic the equation pattern lets through.      *)
(* Tokens are <<kind, value>>.  Modelled: integer literals, the name x,    *)
(* unary and binary + and -, binary *.  The texts handed to the solver are *)
(* drawn without "*" and "/", so "**", "//" and true division never occur; *)
(* a "/" is reported as a failed evaluation.                               *)

DigitRunEnd(s, i) ==
    CHOOSE e \in i..Len(s) :
        /\ \A k \in i..e : IsDigit(s[k])
        /\ (e = Len(s) \/ ~IsDigit(s[e + 1]))

RECURSIVE NumValue(_, _, _)
NumValue(s, i, e) ==
    IF e < i THEN 0 ELSE NumValue(s, i, e - 1) * 10 + DigitValue(s[e])

\* a decimal literal with a leading zero is a SyntaxError unless it is all zeros
LiteralOk(s, i, e) ==
    e = i \/ s[i] # "0" \/ \A k \in i..e : s[k] = "0"

\* the identifier that starts at i: x followed by letters, digits, _
NameEnd(s, i) ==
    CHOOSE e \in i..Len(s) :
        /\ \A k \in (i + 1)..e : IsWordChar(s[k])
        /\ (e = Len(s) \/ ~IsWordChar(s[e + 1]))

RECURSIVE Tokenize(_, _)
Tokenize(s, i) ==
    IF i > Len(s) THEN << >>
    ELSE LET c == s[i] IN
         IF c \in {" ", "\t"} THEN Tokenize(s, i + 1)
         ELSE IF c = "\n"
              THEN IF \A k \in i..Len(s) : IsSpace(s[k]) THEN << >>
                   ELSE << <<"err", 0>> >>
         ELSE IF IsDigit(c)
              THEN LET e == DigitRunEnd(s, i) IN
                   IF LiteralOk(s, i, e) /\ (e = Len(s) \/ ~IsWordChar(s[e + 1]))
                   THEN << <<"num", NumValue(s, i, e)>> >> \o Tokenize(s, e + 1)
                   ELSE << <<"err", 0>> >>
         ELSE IF c = "x"
              THEN LET e == NameEnd(s, i) IN
                   \* only the local x is bound: x2, x10, ... raise NameError
                   IF e = i THEN << <<"x", 0>> >> \o Tokenize(s, e + 1)
                   ELSE << <<"err", 0>> >>
         ELSE IF c \in {"+", "-", "*"}
              THEN << <<c, 0>> >> \o Tokenize(s, i + 1)
         ELSE << <<"err", 0>> >>

ParseFail == [ok |-> FALSE, val |-> << >>, next |-> 0]

ParseOk(v, n) == [ok |-> TRUE, val |-> v, next |-> n]

\* -v for the result of parsing the operand v
Negated(r) == IF r.ok THEN ParseOk(PNeg(r.val), r.next) ELSE ParseFail

\* u_expr: a literal, the name x, or a signed u_expr
RECURSIVE ParseFactor(_, _)
ParseFactor(t, i) ==
    IF i > Len(t) THEN ParseFail
    ELSE IF t[i][1] = "num" THEN ParseOk(PConst(t[i][2]), i + 1)
    ELSE IF t[i][1] = "x" THEN ParseOk(PX, i + 1)
    ELSE IF t[i][1] = "+" THEN ParseFactor(t, i + 1)
    ELSE IF t[i][1] = "-" THEN Negated(ParseFactor(t, i + 1))
    ELSE ParseFail

\* m_expr: u_expr ("*" u_expr)*; acc is the product so far, r the operand just parsed
RECURSIVE TermRest(_, _, _)
RECURSIVE TermStep(_, _, _)
TermStep(t, acc, r) ==
    IF r.ok THEN TermRest(t, PMul(acc, r.val), r.next) ELSE ParseFail

TermRest(t, acc, i) ==
    IF i <= Len(t) /\ t[i][1] = "*"
    THEN TermStep(t, acc, ParseFactor(t, i + 1))
    ELSE ParseOk(acc, i)

ParseTerm(t, i) == TermStep(t, <<1>>, ParseFactor(t, i))

\* a_expr: m_expr (("+" | "-") m_expr)*; acc is the sum so far, r the term just parsed
RECURSIVE ExprRest(_, _, _)
RECURSIVE ExprStep(_, _, _, _)
ExprStep(t, acc, sign, r) ==
    IF r.ok
    THEN ExprRest(t, PAdd(acc, IF sign = "-" THEN PNeg(r.val) ELSE r.val), r.next)
    ELSE ParseFail

ExprRest(t, acc, i) ==
    IF i <= Len(t) /\ t[i][1] \in {"+", "-"}
    THEN ExprStep(t, acc, t[i][1], ParseTerm(t, i + 1))
    ELSE ParseOk(acc, i)

ParseExpr(t, i) == ExprStep(t, << >>, "+", ParseTerm(t, i))

\* the whole token list must be one expression
Evaluated(t, r) ==
    IF t # << >> /\ r.ok /\ r.next = Len(t) + 1
    THEN [ok |-> TRUE, val |-> r.val]
    ELSE [ok |-> FALSE, val |-> << >>]

EvalTokens(t) == Evaluated(t, ParseExpr(t, 1))

\* eval(text): ok is FALSE when eval raises (SyntaxError, NameError)
PyEval(s) == EvalTokens(Tokenize(s, 1))

---------------------------------------------------------------------------
(* BaseAgent._solve_equation *)

\* the value None: no text
None == <<"<None>">>

\* truth value of a str-or-None
Truthy(v) == v # None /\ v # << >>

\* subject.lower() of the three subject labels
SubjectLower(subject) ==
    CASE subject = "Math" -> "math"
      [] subject = "English" -> "english"
      [] subject = "EVS" -> "evs"

\* [0-9xX\+\-\*/\s]
LeftClass(c) == IsDigit(c) \/ c \in {"x", "X", "+", "-", "*", "/"} \/ IsSpace(c)

\* [0-9\+\-\*/\s]
RightClass(c) == IsDigit(c) \/ c \in {"+", "-", "*", "/"} \/ IsSpace(c)

\* the pattern ([0-9xX\+\-\*/\s]+)=([0-9\+\-\*/\s]+) matches from i with its "=" at j
EqMatchAt(s, i, j) ==
    /\ i < j /\ j < Len(s)
    /\ \A k \in i..(j - 1) : LeftClass(s[k])
    /\ s[j] = "="
    /\ RightClass(s[j + 1])

MatchStarts(s) == {i \in 1..Len(s) : \E j \in 1..Len(s) : EqMatchAt(s, i, j)}

Least(S) == CHOOSE i \in S : \A k \in S : i <= k

\* the end of the greedy second group that starts after the "=" at j
RightEnd(s, j) ==
    CHOOSE r \in (j + 1)..Len(s) :
        /\ \A k \in (j + 1)..r : RightClass(s[k])
        /\ (r = Len(s) \/ ~RightClass(s[r + 1]))

MatchFrom(s, i, j) ==
    [found |-> TRUE, left |-> SubSeq(s, i, j - 1), right |-> SubSeq(s, j + 1, RightEnd(s, j))]

\* the "=" that ends the first group started at i
EqualsAfter(s, i) == CHOOSE j \in 1..Len(s) : EqMatchAt(s, i, j)

MatchAtStart(s, i) == MatchFrom(s, i, EqualsAfter(s, i))

\* re.search: the leftmost match, both groups greedy
EquationSearch(s) ==
    IF MatchStarts(s) # {} THEN MatchAtStart(s, Least(MatchStarts(s)))
    ELSE [found |-> FALSE, left |-> << >>, right |-> << >>]

\* str(Rational(n, d)) for n / d in lowest terms, d > 0
FractionStr(n, d) ==
    IF d = 1 THEN IntStr(n) ELSE IntStr(n) \o <<"/">> \o IntStr(d)

Reduced(n, d, g) == FractionStr((IF d < 0 THEN 0 - n ELSE n) \div g, Abs(d) \div g)

\* str(Rational(n, d)) as SymPy prints it
RationalStr(n, d) == Reduced(n, d, Gcd(Abs(n), Abs(d)))

RECURSIVE CoefStr(_)
CoefStr(p) ==
    IF p = << >> THEN << >> ELSE IntStr(Head(p)) \o <<",">> \o CoefStr(Tail(p))

\* str(solve(Eq(lhs, rhs), x)) for lhs - rhs = p of degree >= 1: the root of a
\* linear p exactly; for a higher degree the (never empty) list of roots, named by p
SolutionListStr(p) ==
    IF Len(p) = 2
    THEN <<"[">> \o RationalStr(0 - p[1], p[2]) \o <<"]">>
    ELSE <<"[", "roots of ">> \o CoefStr(p) \o <<"]">>

\* lib: what solve(True, x) gives for an identity, which depends on the SymPy
\* release: "empty" (the list []) or "true" (the value True)
\* the text returned for the equation lhs - rhs = p
SolutionText(p, lib) ==
    IF Len(p) >= 2 THEN <<"Solution: x = ">> \o SolutionListStr(p)
    ELSE IF Len(p) = 1 THEN <<"No real solution found.">>
    ELSE IF lib = "true" THEN <<"Solution: x = ", "True">>
    ELSE <<"No real solution found.">>

\* Eq(eval(left), eval(right)) and solve, given the two evaluations
SolveSides(l, r, lib) ==
    IF ~l.ok \/ ~r.ok THEN None
    ELSE SolutionText(PAdd(l.val, PNeg(r.val)), lib)

\* the left side evaluated without writing the products "*x"
SolveMatchNoProduct(m, lib) ==
    IF ~m.found THEN None
    ELSE SolveSides(PyEval(ReplaceChar(m.left, "X", <<"x">>)), PyEval(m.right), lib)

\* eval(left_expr.replace("x", "*x")) and eval(right_expr) of the match m, then solve
SolveMatch(m, lib) ==
    IF ~m.found THEN None
    ELSE SolveSides(PyEval(ReplaceChar(ReplaceChar(m.left, "X", <<"x">>), "x", <<"*", "x">>)),
                    PyEval(m.right), lib)

solve_equation(subject, question, lib) ==
    IF SubjectLower(subject) # "math" THEN None
    ELSE SolveMatch(EquationSearch(question), lib)

\* text literals used below
Q_2x_eq_10 == <<"2", "x", " ", "=", " ", "1", "0">>
Q_x_eq_x == <<"x", " ", "=", " ", "x">>
Q_hello_world == <<"h", "e", "l", "l", "o", " ", "w", "o", "r", "l", "d">>
Q_0x_eq_5 == <<"0", "x", " ", "=", " ", "5">>

---------------------------------------------------------------------------
(* The keyword tables of BaseAgent.query and MetaAgent._find_subject *)

math_keywords ==
    {<<"x">>, <<"y">>, <<"z">>, <<"e","q","u","a","t","i","o","n">>, <<"s","o","l","v","e">>, 
     <<"c","a","l","c","u","l","a","t","e">>, <<"v","a","l","u","e">>, 
     <<"a","l","g","e","b","r","a">>, <<"a","d","d">>, <<"s","u","b","t","r","a","c","t">>, 
     <<"m","u","l","t","i","p","l","y">>, <<"d","i","v","i","d","e">>, 
     <<"n","u","m","b","e","r">>, <<"s","u","m">>, 
     <<"d","i","f","f","e","r","e","n","c","e">>, <<"p","r","o","d","u","c","t">>, 
     <<"q","u","o","t","i","e","n","t">>, <<"f","r","a","c","t","i","o","n">>, 
     <<"d","e","c","i","m","a","l">>, <<"p","e","r","c","e","n","t","a","g","e">>, 
     <<"r","a","t","i","o">>, <<"a","r","e","a">>, <<"p","e","r","i","m","e","t","e","r">>, 
     <<"v","o","l","u","m","e">>, <<"s","q","u","a","r","e">>, <<"c","u","b","e">>, 
     <<"r","o","o","t">>, <<"p","o","w","e","r">>, <<"h","o","w"," ","m","a","n","y">>, 
     <<"h","o","w"," ","m","u","c","h">>, <<"t","o","t","a","l">>, 
     <<"a","l","t","o","g","e","t","h","e","r">>, <<"l","e","f","t">>, <<"m","o","r","e">>, 
     <<"l","e","s","s">>, <<"t","i","m","e","s">>, <<"d","i","v","i","d","e","d">>, 
     <<"p","l","u","s">>, <<"m","i","n","u","s">>, <<"e","q","u","a","l">>, 
     <<"g","r","e","a","t","e","r">>, <<"s","m","a","l","l","e","r">>, 
     <<"d","i","g","i","t">>, <<"p","l","a","c","e"," ","v","a","l","u","e">>, 
     <<"r","o","u","n","d">>, <<"e","s","t","i","m","a","t","e">>, 
     <<"m","e","a","s","u","r","e">>, <<"l","e","n","g","t","h">>, <<"w","i","d","t","h">>, 
     <<"h","e","i","g","h","t">>, <<"m","a","t","h">>, <<"m","a","t","h","s">>, 
     <<"m","a","t","h","e","m","a","t","i","c","s">>, <<"p","r","o","b","l","e","m">>}

generic_words ==
    {<<"w","h","a","t"," ","i","s">>, <<"e","x","p","l","a","i","n">>, 
     <<"t","e","l","l"," ","m","e">>, <<"d","e","s","c","r","i","b","e">>}

english_keywords ==
    {<<"r","e","a","d">>, <<"r","e","a","d","i","n","g">>, <<"g","r","a","m","m","a","r">>, 
     <<"v","o","c","a","b","u","l","a","r","y">>, <<"w","r","i","t","i","n","g">>, 
     <<"p","o","e","m">>, <<"l","i","t","e","r","a","t","u","r","e">>, <<"w","o","r","d">>, 
     <<"s","e","n","t","e","n","c","e">>, <<"s","t","o","r","y">>, <<"n","o","u","n">>, 
     <<"v","e","r","b">>, <<"a","d","j","e","c","t","i","v","e">>, 
     <<"p","a","r","a","g","r","a","p","h">>}

evs_keywords ==
    {<<"e","n","v","i","r","o","n","m","e","n","t">>, <<"p","l","a","n","t">>, 
     <<"a","n","i","m","a","l">>, <<"s","e","a","s","o","n">>, 
     <<"p","o","l","l","u","t","i","o","n">>, 
     <<"c","o","n","s","e","r","v","a","t","i","o","n">>, <<"r","e","s","o","u","r","c","e">>, 
     <<"n","a","t","u","r","e">>, <<"e","a","r","t","h">>, <<"w","a","t","e","r">>, 
     <<"a","i","r">>, <<"l","i","v","i","n","g">>, 
     <<"n","o","n","-","l","i","v","i","n","g">>}

RouterMathTerms ==
    {<<"m","a","t","h">>, <<"s","o","l","v","e">>, <<"e","q","u","a","t","i","o","n">>, 
     <<"c","a","l","c","u","l","a","t","e">>}

RouterEnglishTerms ==
    {<<"e","n","g","l","i","s","h">>, <<"r","e","a","d">>, <<"g","r","a","m","m","a","r">>, 
     <<"l","i","t","e","r","a","t","u","r","e">>}

RouterEvsTerms ==
    {<<"e","v","s">>, <<"p","l","a","n","t">>, 
     <<"e","n","v","i","r","o","n","m","e","n","t">>, <<"s","e","a","s","o","n">>}


---------------------------------------------------------------------------
(* Program constants *)

\* a generic question is refused only when it has fewer words than this
GenericWordLimit == 10
\* a retrieved chunk counts when its trimmed text is at least this long
MinChunkLen == 30
\* responses longer than this are checked against the context
ResponseCheckLen == 400
\* least share, in percent, of the response's words found in the context
OverlapPercent == 10

Subjects == {"Math", "English", "EVS"}

\* the order of app.py's subjects list and of MetaAgent's subject_texts
SubjectOrder == <<"Math", "English", "EVS">>

---------------------------------------------------------------------------
(* core/memory.py *)

\* ChatMemory.add_user_message
add_user_message(messages, content) ==
    Append(messages, [type |-> "User", content |-> content])

\* ChatMemory.add_ai_message
add_ai_message(messages, content) ==
    Append(messages, [type |-> "AI", content |-> content])

\* a memory object shared with the registered agent of the subject
PersistentMemoryShared(subject) == [ref |-> subject, messages |-> << >>]

\* PersistentMemory(subject): a new object (ref "fresh", aliasing no registered
\* agent's memory) whose chat_memory.messages is empty
PersistentMemory(subject) == [ref |-> "fresh", messages |-> << >>]

---------------------------------------------------------------------------
(* BaseAgent.query *)

HasDigit(question) == \E i \in 1..Len(question) : IsDigit(question[i])

\* the subject filter at the head of query, given q_lower: TRUE when the question is refused
GateOf(subject, question, q_lower) ==
    CASE SubjectLower(subject) = "math" ->
            /\ ~ContainsAny(q_lower, math_keywords)
            /\ ~HasDigit(question)
            /\ ContainsAny(q_lower, generic_words)
            /\ WordCount(question) < GenericWordLimit
      [] SubjectLower(subject) = "english" -> ~ContainsAny(q_lower, english_keywords)
      [] SubjectLower(subject) = "evs" -> ~ContainsAny(q_lower, evs_keywords)

GateRejects(subject, question) == GateOf(subject, question, Lower(question))

\* the refusal written in each branch of the filter
Refusal(subject) ==
    CASE SubjectLower(subject) = "math" -> <<"Sorry, I can only answer ", "Math", " questions.">>
      [] SubjectLower(subject) = "english" -> <<"Sorry, I can only answer ", "English", " questions.">>
      [] SubjectLower(subject) = "evs" -> <<"Sorry, I can only answer ", "EVS", " questions.">>

NoInformation(subject) ==
    <<"Sorry, I don't have information on this topic in the ", subject, " textbook.">>

CannotFind(subject) ==
    <<"I cannot find this information in the ", subject, " textbook.">>

ErrorFromModel(e) == <<"Error from model: ", e>>

(* A retrieved chunk and a completion are described by what query reads of   *)
(* them: id names the trimmed text, len is its length, pad the whitespace    *)
(* around it, words the lower-cased words longer than 3 characters, disclaim *)
(* whether the lower-cased text contains "cannot find".                      *)

\* the chunks measured without strip()
NotMeaningfulRaw(docs) ==
    docs = << >> \/ \A i \in 1..Len(docs) : docs[i].len + docs[i].pad < MinChunkLen

\* not docs or all(len(d.page_content.strip()) < 30 for d in docs)
NotMeaningful(docs) ==
    docs = << >> \/ \A i \in 1..Len(docs) : docs[i].len < MinChunkLen

\* the words longer than 3 characters of "\n\n".join(page_content).lower()
ContextWords(docs) == UNION {docs[i].words : i \in 1..Len(docs)}

\* the response replaced also at exactly OverlapPercent
OverlapCheckInclusive(subject, response, overlap) ==
    IF 100 * overlap <= OverlapPercent * Cardinality(response.words)
    THEN CannotFind(subject)
    ELSE <<response.id>>

\* the response is kept when at least OverlapPercent of its words are in the context
OverlapCheck(subject, response, overlap) ==
    IF 100 * overlap < OverlapPercent * Cardinality(response.words)
    THEN CannotFind(subject)
    ELSE <<response.id>>

\* the hallucination check on the trimmed response
Grounded(subject, response, context_words) ==
    IF response.len > ResponseCheckLen /\ ~response.disclaim
    THEN IF response.words # {} /\ context_words # {}
         THEN OverlapCheck(subject, response, Cardinality(response.words \cap context_words))
         ELSE <<response.id>>
    ELSE <<response.id>>

---------------------------------------------------------------------------
(* MetaAgent: splitting and classification *)

\* \band\b at position i
AndAt(s, i) ==
    /\ i + 2 <= Len(s)
    /\ SubSeq(s, i, i + 2) = <<"a", "n", "d">>
    /\ (i = 1 \/ ~IsWordChar(s[i - 1]))
    /\ (i + 3 > Len(s) \/ ~IsWordChar(s[i + 3]))

\* re.split(r"\?|\band\b|\n", text) from position i, cur the part being read
RECURSIVE SplitFrom(_, _, _)
SplitFrom(s, i, cur) ==
    IF i > Len(s) THEN <<cur>>
    ELSE IF s[i] = "?" \/ s[i] = "\n" THEN <<cur>> \o SplitFrom(s, i + 1, << >>)
    ELSE IF AndAt(s, i) THEN <<cur>> \o SplitFrom(s, i + 3, << >>)
    ELSE SplitFrom(s, i + 1, Append(cur, s[i]))

NonBlank(p) == Strip(p) # << >>

StripAll(parts) == [i \in 1..Len(parts) |-> Strip(parts[i])]

\* MetaAgent._split_questions
split_questions(text) == StripAll(SelectSeq(SplitFrom(text, 1, << >>), NonBlank))

(* Embeddings are integer vectors of integer length, so that the cosine is  *)
(* a rational; a similarity or confidence c stands for c / 100.             *)

Dot(a, b) == a[1] * b[1] + a[2] * b[2]

\* np.linalg.norm
Norm(a) == CHOOSE n \in 0..(Abs(a[1]) + Abs(a[2])) : n * n = Dot(a, a)

\* np.dot(q_vec, vec) / (np.linalg.norm(q_vec) * np.linalg.norm(vec)), in hundredths
Cosine(a, b) == (100 * Dot(a, b)) \div (Norm(a) * Norm(b))

\* max(sims, key=sims.get): the first subject, in dict order, of greatest similarity
BestIndex(sims) ==
    CHOOSE i \in 1..Len(SubjectOrder) :
        /\ \A j \in 1..Len(SubjectOrder) : sims[SubjectOrder[j]] <= sims[SubjectOrder[i]]
        /\ \A j \in 1..(i - 1) : sims[SubjectOrder[j]] < sims[SubjectOrder[i]]

BestSubject(sims) == SubjectOrder[BestIndex(sims)]

\* the overrides with the English terms tried first
OverrideOfEnglishFirst(q_lower) ==
    IF ContainsAny(q_lower, RouterEnglishTerms) THEN "English"
    ELSE IF ContainsAny(q_lower, RouterMathTerms) THEN "Math"
    ELSE IF ContainsAny(q_lower, RouterEvsTerms) THEN "EVS"
    ELSE ""

\* the explicit keyword overrides of _find_subject: the forced subject, or "" for none
OverrideOf(q_lower) ==
    IF ContainsAny(q_lower, RouterMathTerms) THEN "Math"
    ELSE IF ContainsAny(q_lower, RouterEnglishTerms) THEN "English"
    ELSE IF ContainsAny(q_lower, RouterEvsTerms) THEN "EVS"
    ELSE ""

---------------------------------------------------------------------------
(* Inputs of the session model *)

Q_what_is_love == <<"w", "h", "a", "t", " ", "i", "s", " ", "l", "o", "v", "e">>
Q_read_plant == <<"r", "e", "a", "d", " ", "a", " ", "p", "l", "a", "n", "t">>

\* the questions typed into a subject tab
Questions == {Q_2x_eq_10, Q_0x_eq_5, Q_hello_world, Q_what_is_love, Q_read_plant}

\* "solve 2x = 10 and read a plant?"
RQ_solve_and_read ==
    <<"s", "o", "l", "v", "e", " ">> \o Q_2x_eq_10 \o <<" ", "a", "n", "d", " ">>
    \o Q_read_plant \o <<"?">>
\* "hello world\nwhat is love?\n"
RQ_hello_love == Q_hello_world \o <<"\n">> \o Q_what_is_love \o <<"?", "\n">>

\* the questions typed into the Auto tab
RouteQuestions == {RQ_solve_and_read, RQ_hello_love}

ChunkShort == [id |-> "chunk-short", len |-> MinChunkLen - 1, pad |-> 2, words |-> {1}]
ChunkText == [id |-> "chunk-text", len |-> MinChunkLen, pad |-> 0, words |-> {1, 2}]

RespShort ==
    [id |-> "resp-short", len |-> ResponseCheckLen, pad |-> 0, disclaim |-> FALSE, words |-> {3}]
RespLongOff ==
    [id |-> "resp-long-off", len |-> ResponseCheckLen + 1, pad |-> 0, disclaim |-> FALSE,
     words |-> {3, 4}]
RespLongDisclaim ==
    [id |-> "resp-long-disclaim", len |-> ResponseCheckLen + 1, pad |-> 0, disclaim |-> TRUE,
     words |-> {3, 4}]

\* what the completion service returns
Responses == {RespShort, RespLongOff, RespLongDisclaim}

\* str(e) of the failures of the completion service
ErrorTexts == {"connection refused", "model not found"}

NoResponse == [id |-> "", len |-> 0, pad |-> 0, disclaim |-> FALSE, words |-> {}]

\* the behaviours of the collaborators during one query call: the retriever
\* raises, or returns chunks that do not count, or chunks that do, and then
\* the completion service raises or returns a response
QueryEnvs ==
    {[lib |-> "empty", retrieval |-> "raise", docs |-> << >>, llm |-> "ok",
      err |-> "", response |-> NoResponse]}
    \cup
    {[lib |-> "empty", retrieval |-> "ok", docs |-> d, llm |-> "ok",
      err |-> "", response |-> RespShort] : d \in {<< >>, <<ChunkShort>>}}
    \cup
    {[lib |-> "empty", retrieval |-> "ok", docs |-> <<ChunkShort, ChunkText>>, llm |-> "raise",
      err |-> e, response |-> NoResponse] : e \in ErrorTexts}
    \cup
    {[lib |-> "empty", retrieval |-> "ok", docs |-> <<ChunkShort, ChunkText>>, llm |-> "ok",
      err |-> "", response |-> r] : r \in Responses}

\* embed_query of the three subject texts (embeddings are integer vectors of
\* length 1 or 5)
SubjectVectorChoices ==
    {[s \in Subjects |->
        IF s = "Math" THEN <<1, 0>> ELSE IF s = "English" THEN <<0, 1>> ELSE <<-1, 0>>]}

\* embed_query of a sub-question
QueryVectors == {<<3, 4>>, <<-4, -3>>}

\* embed_query of the sub-questions of one route call, in order: the
\* sub-questions at odd places get p[1], the others p[2]; one of the two is (3,4)
VectorLists ==
    {[i \in 1..4 |-> IF i % 2 = 1 THEN p[1] ELSE p[2]]
        : p \in {r \in QueryVectors \X QueryVectors : <<3, 4>> \in {r[1], r[2]}}}

\* the collaborators' behaviours explored during one route call
RouteServices ==
    {e \in QueryEnvs :
        \/ e.retrieval = "raise"
        \/ e.docs = << >>
        \/ e.llm = "raise" /\ e.err = "connection refused"
        \/ e.docs = <<ChunkShort, ChunkText>> /\ e.response \in {RespShort, RespLongOff}}

RouteEnvs ==
    {[embed |-> em, q_vecs |-> qv, subject_vectors |-> sv, construct |-> co, service |-> e]
        : em \in {"raise"}, co \in {"ok"}, qv \in {qs \in VectorLists : qs[1] = qs[2]},
          sv \in SubjectVectorChoices, e \in {f \in QueryEnvs : f.retrieval = "raise"}}
    \cup
    {[embed |-> em, q_vecs |-> qv, subject_vectors |-> sv, construct |-> co, service |-> e]
        : em \in {"ok"}, co \in {"raise"}, qv \in {qs \in VectorLists : qs[1] = qs[2]},
          sv \in SubjectVectorChoices, e \in {f \in QueryEnvs : f.retrieval = "raise"}}
    \cup
    {[embed |-> em, q_vecs |-> qv, subject_vectors |-> sv, construct |-> co, service |-> e]
        : em \in {"ok"}, co \in {"ok"}, qv \in VectorLists,
          sv \in SubjectVectorChoices, e \in RouteServices}

\* hash(uploaded_file.getvalue()) of the files a user uploads
FileHashes == {"pdf-a"}

NoHash == "None"

---------------------------------------------------------------------------
(* The text functions tabulated over the texts of the model: each is a pure *)
(* function of its text, evaluated once.                                    *)

SplitTable == [text \in RouteQuestions |-> split_questions(text)]

\* every text a query call or a classification receives
AskedTexts ==
    Questions
    \cup UNION {{SplitTable[text][i] : i \in 1..Len(SplitTable[text])} : text \in RouteQuestions}

GateTable == [subject \in Subjects |-> [q \in AskedTexts |-> GateRejects(subject, q)]]

SolveTable ==
    [subject \in Subjects |->
        [q \in AskedTexts |-> [lb \in {"empty", "true"} |-> solve_equation(subject, q, lb)]]]

---------------------------------------------------------------------------
(* env is what the collaborators do during the call:                         *)
(*   lib        SymPy's answer to an identity ("empty" or "true")            *)
(*   retrieval  "raise" or "ok", and docs the chunks the retriever returns   *)
(*   llm        "raise" with the text err, or "ok" with response             *)
(* The result: messages the log after the call, outcome "returned" with the  *)
(* answer or "raised", retrievals and completions the number of calls made   *)
(* to the retriever and to the completion service, eq the solver's value,    *)
(* caught the failure text of a completion call that failed.                 *)
Returned(m1, ans, eq, nr, nc) ==
    [messages |-> add_ai_message(m1, ans), outcome |-> "returned", fault |-> "", caught |-> "",
     answer |-> ans, eq |-> eq, retrievals |-> nr, completions |-> nc]

\* except Exception as e: the failure e of the completion call becomes the answer
Caught(m1, e, eq) ==
    [Returned(m1, ErrorFromModel(e), eq, 1, 1) EXCEPT !.caught = e]

\* the completion call outside the try: its failure leaves query
QueryRetrievePropagates(subject, m1, eq, env) ==
    IF env.retrieval = "raise"
    THEN [messages |-> m1, outcome |-> "raised", fault |-> "retrieval", caught |-> "",
          answer |-> None, eq |-> eq, retrievals |-> 1, completions |-> 0]
    ELSE IF NotMeaningful(env.docs)
    THEN Returned(m1, NoInformation(subject), eq, 1, 0)
    ELSE IF env.llm = "raise"
    THEN [messages |-> m1, outcome |-> "raised", fault |-> "completion", caught |-> env.err,
          answer |-> None, eq |-> eq, retrievals |-> 1, completions |-> 1]
    ELSE Returned(m1, Grounded(subject, env.response, ContextWords(env.docs)), eq, 1, 1)

\* from the retriever on: m1 is the log with the question, eq the solver's value
QueryRetrieve(subject, m1, eq, env) ==
    IF env.retrieval = "raise"
    THEN [messages |-> m1, outcome |-> "raised", fault |-> "retrieval", caught |-> "",
          answer |-> None, eq |-> eq, retrievals |-> 1, completions |-> 0]
    ELSE IF NotMeaningful(env.docs)
    THEN Returned(m1, NoInformation(subject), eq, 1, 0)
    ELSE IF env.llm = "raise"
    THEN Caught(m1, env.err, eq)
    ELSE Returned(m1, Grounded(subject, env.response, ContextWords(env.docs)), eq, 1, 1)

\* the solver's value computed but the shortcut not taken
QuerySolveFallsThrough(subject, m1, eq_solution, env) ==
    QueryRetrieve(subject, m1, eq_solution, env)

\* from the equation shortcut on
QuerySolve(subject, m1, eq_solution, env) ==
    IF Truthy(eq_solution) THEN Returned(m1, eq_solution, eq_solution, 0, 0)
    ELSE QueryRetrieve(subject, m1, eq_solution, env)

\* the refusal returned without being recorded
QueryGateUnrecorded(subject, m1, question, env) ==
    IF GateTable[subject][question]
    THEN [Returned(m1, Refusal(subject), None, 0, 0) EXCEPT !.messages = m1]
    ELSE QuerySolve(subject, m1, SolveTable[subject][question][env.lib], env)

\* from the subject filter on
QueryGate(subject, m1, question, env) ==
    IF GateTable[subject][question] THEN Returned(m1, Refusal(subject), None, 0, 0)
    ELSE QuerySolve(subject, m1, SolveTable[subject][question][env.lib], env)

QueryRun(subject, messages, question, env) ==
    QueryGate(subject, add_user_message(messages, question), question, env)

\* the override with confidence 1.0, or else the best subject with its similarity
Classified(sims, forced) ==
    IF forced # "" THEN <<forced, 100>>
    ELSE <<BestSubject(sims), sims[BestSubject(sims)]>>

Similarities(q_vec, subject_vectors) ==
    [subj \in Subjects |-> Cosine(q_vec, subject_vectors[subj])]

\* MetaAgent._find_subject, given the embedding of the question and the
\* subject vectors: <<subject, confidence>>
find_subject(question, q_vec, subject_vectors) ==
    Classified(Similarities(q_vec, subject_vectors), OverrideOf(Lower(question)))

\* _find_subject tabulated over the sub-questions and embeddings of the model
FindTable ==
    [sv \in SubjectVectorChoices |->
        [q \in AskedTexts |-> [v \in QueryVectors |-> find_subject(q, v, sv)]]]

NotAvailable(subject) ==
    <<"**Error**: ", subject, " subject not available. Please upload the PDF.">>

\* the tier shown for a confidence
ConfidenceEmoji(confidence) ==
    IF confidence > 70 THEN "green" ELSE IF confidence > 50 THEN "yellow" ELSE "red"

\* f"{confidence_emoji} **{subject} Answer** (confidence: {confidence:.0%}):\n{ans}"
AnswerEntry(subject, confidence, ans) ==
    <<ConfidenceEmoji(confidence), " **", subject, " Answer** (confidence: ">>
    \o IntStr(confidence) \o <<"%", "):\n">> \o ans

\* "\n\n---\n\n".join(answers)
RECURSIVE Join(_)
Join(answers) ==
    IF answers = << >> THEN << >>
    ELSE IF Len(answers) = 1 THEN answers[1]
    ELSE answers[1] \o <<"\n\n---\n\n">> \o Join(Tail(answers))

(* MetaAgent.route.  env is what the collaborators do during the call:      *)
(*   embed      "raise" or "ok", with q_vecs[i] the embedding of the i-th    *)
(*              sub-question and subject_vectors those of the subject texts  *)
(*   construct  "raise" or "ok": BaseAgent(...) loads the PDF and builds the *)
(*              index again                                                  *)
(*   service    the retriever and the completion service, as for query       *)
(* logs are the registered agents' logs; a temporary agent writes to the     *)
(* memory object it was given.  One trace entry per handled sub-question.    *)
TraceEntry(sub_q, found, q_vec, available, fresh, r, entry) ==
    [sub_q |-> sub_q, subject |-> found[1], confidence |-> found[2], q_vec |-> q_vec,
     available |-> available, fresh |-> fresh, answer |-> r.answer,
     retrievals |-> r.retrievals, completions |-> r.completions, entry |-> entry]

NotQueried == [answer |-> None, retrievals |-> 0, completions |-> 0]

\* the messages of the memory object mem, and the logs after a query left r in it
MessagesOf(mem, logs) == IF mem.ref = "fresh" THEN mem.messages ELSE logs[mem.ref]

LogsAfter(mem, logs, r) ==
    IF mem.ref = "fresh" THEN logs ELSE [logs EXCEPT ![mem.ref] = r.messages]

RECURSIVE RouteLoop(_, _, _, _, _, _)
RECURSIVE RouteAnswered(_, _, _, _, _, _, _, _, _)
RECURSIVE RouteQuery(_, _, _, _, _, _, _, _)
RECURSIVE RouteSub(_, _, _, _, _, _, _)

\* after temp_agent.query(sub_q) gave r on the memory object mem
RouteAnswered(sub_questions, i, registered, logs, env, trace, found, mem, r) ==
    IF r.outcome = "raised"
    THEN [outcome |-> "raised", fault |-> r.fault, logs |-> LogsAfter(mem, logs, r),
          trace |-> trace]
    ELSE RouteLoop(sub_questions, i + 1, registered, LogsAfter(mem, logs, r), env,
            Append(trace,
               TraceEntry(sub_questions[i], found, env.q_vecs[i], TRUE,
                          MessagesOf(mem, logs), r,
                          AnswerEntry(found[1], found[2], r.answer))))

\* temp_agent = BaseAgent(subject, ..., mem); temp_agent.query(sub_q)
RouteQuery(sub_questions, i, registered, logs, env, trace, found, mem) ==
    IF env.construct = "raise"
    THEN [outcome |-> "raised", fault |-> "build", logs |-> logs, trace |-> trace]
    ELSE RouteAnswered(sub_questions, i, registered, logs, env, trace, found, mem,
            QueryRun(found[1], MessagesOf(mem, logs), sub_questions[i], env.service))

\* break instead of continue at a subject with no registered agent
RouteSubBreak(sub_questions, i, registered, logs, env, trace, found) ==
    IF found[1] \notin registered
    THEN [outcome |-> "returned", fault |-> "", logs |-> logs,
          trace |-> Append(trace,
                      TraceEntry(sub_questions[i], found, env.q_vecs[i], FALSE, << >>,
                                 NotQueried, NotAvailable(found[1])))]
    ELSE RouteQuery(sub_questions, i, registered, logs, env, trace, found,
                    PersistentMemory(found[1]))

\* the loop body once the sub-question is classified as found = <<subject, confidence>>
RouteSub(sub_questions, i, registered, logs, env, trace, found) ==
    IF found[1] \notin registered
    THEN RouteLoop(sub_questions, i + 1, registered, logs, env,
            Append(trace,
               TraceEntry(sub_questions[i], found, env.q_vecs[i], FALSE, << >>,
                          NotQueried, NotAvailable(found[1]))))
    ELSE RouteQuery(sub_questions, i, registered, logs, env, trace, found,
                    PersistentMemory(found[1]))

RouteLoop(sub_questions, i, registered, logs, env, trace) ==
    IF i > Len(sub_questions)
    THEN [outcome |-> "returned", fault |-> "", logs |-> logs, trace |-> trace]
    ELSE IF env.embed = "raise"
    THEN [outcome |-> "raised", fault |-> "embedding", logs |-> logs, trace |-> trace]
    ELSE RouteSub(sub_questions, i, registered, logs, env, trace,
                  FindTable[env.subject_vectors][sub_questions[i]][env.q_vecs[i]])

RouteResult(r) ==
    [outcome |-> r.outcome, fault |-> r.fault, logs |-> r.logs, trace |-> r.trace,
     answer |-> IF r.outcome = "returned" THEN Join([i \in 1..Len(r.trace) |-> r.trace[i].entry]) ELSE None]

route(question, registered, logs, env) ==
    RouteResult(RouteLoop(SplitTable[question], 1, registered, logs, env, << >>))

---------------------------------------------------------------------------
(* The session: app.py *)

\* last: op the handler that ran; for a query or route call its subject and
\* question, outcome ("returned" or "raised", with fault the step that raised),
\* caught the failure text of a completion call that failed, answer the value returned, eq the solver's value, the number of retriever
\* and completion calls, before the registered logs when the call began, and
\* for route the trace of its sub-questions
NoCall ==
    [op |-> "none", subject |-> "", question |-> << >>, outcome |-> "", fault |-> "",
     caught |-> "", answer |-> None, eq |-> None, retrievals |-> 0, completions |-> 0,
     before |-> [s \in Subjects |-> << >>], trace |-> << >>]

RECURSIVE SumLen(_, _)
SumLen(f, S) ==
    IF S = {} THEN 0
    ELSE LET x == CHOOSE y \in S : TRUE IN Len(f[x]) + SumLen(f, S \ {x})

Init ==
    /\ agents = {}
    /\ textbooks_uploaded = [s \in Subjects |-> FALSE]
    /\ uploaded_file_hashes = [s \in Subjects |-> NoHash]
    /\ db = {}
    /\ memory = [s \in Subjects |-> << >>]
    /\ calls = [s \in Subjects |-> << >>]
    /\ last = NoCall
    /\ fnIn = << >>
    /\ fnOut = << >>

\* a new file in the uploader of subject: the file is written, the old
\* database and the old agent are dropped, then the documents are loaded,
\* indexed and a new agent registered; loaded is "ok", "empty" (no documents:
\* continue), "raise" (load_documents or build_vector_store raises) or
\* "raise_agent" (BaseAgent(...) raises, after the database was built)
Upload(subject, file_hash, loaded) ==
    /\ uploaded_file_hashes[subject] # file_hash
    /\ db' = IF loaded \in {"ok", "raise_agent"} THEN db \cup {subject} ELSE db \ {subject}
    /\ agents' = IF loaded = "ok" THEN agents \cup {subject} ELSE agents \ {subject}
    /\ memory' = [memory EXCEPT ![subject] =
                      IF loaded = "ok" THEN PersistentMemory(subject).messages ELSE << >>]
    /\ calls' = [calls EXCEPT ![subject] = << >>]
    /\ textbooks_uploaded' =
          IF loaded = "ok" THEN [textbooks_uploaded EXCEPT ![subject] = TRUE]
          ELSE IF loaded = "empty" THEN textbooks_uploaded
          ELSE [textbooks_uploaded EXCEPT ![subject] = FALSE]
    /\ uploaded_file_hashes' =
          IF loaded = "ok" THEN [uploaded_file_hashes EXCEPT ![subject] = file_hash]
          ELSE uploaded_file_hashes
    /\ last' = [NoCall EXCEPT !.op = "upload"]
    /\ UNCHANGED <<fnIn, fnOut>>

\* a run of the script with no file in the uploader of subject: without an
\* agent, and with the database and the PDF on disk, the stored index is
\* loaded and an agent registered; loaded is "ok", "none" (load_vector_store
\* returns None) or "raise" (caught, with a warning)
Rerun(subject, loaded) ==
    /\ subject \notin agents
    /\ subject \in db
    /\ agents' = IF loaded = "ok" THEN agents \cup {subject} ELSE agents
    /\ memory' = IF loaded = "ok"
                 THEN [memory EXCEPT ![subject] = PersistentMemory(subject).messages]
                 ELSE memory
    /\ textbooks_uploaded' =
          IF loaded = "ok" THEN [textbooks_uploaded EXCEPT ![subject] = TRUE]
          ELSE textbooks_uploaded
    /\ last' = [NoCall EXCEPT !.op = "rerun"]
    /\ UNCHANGED <<uploaded_file_hashes, db, calls, fnIn, fnOut>>

\* the Clear button of an active subject
ClearSubject(subject) ==
    /\ textbooks_uploaded[subject]
    /\ agents' = agents \ {subject}
    /\ memory' = [memory EXCEPT ![subject] = << >>]
    /\ calls' = [calls EXCEPT ![subject] = << >>]
    /\ textbooks_uploaded' = [textbooks_uploaded EXCEPT ![subject] = FALSE]
    /\ uploaded_file_hashes' = [uploaded_file_hashes EXCEPT ![subject] = NoHash]
    /\ db' = db \ {subject}
    /\ last' = [NoCall EXCEPT !.op = "clear"]
    /\ UNCHANGED <<fnIn, fnOut>>

\* the session after agents[subject].query(q) gave r
Asked(subject, q, r) ==
    /\ memory' = [memory EXCEPT ![subject] = r.messages]
    /\ calls' = IF r.outcome = "returned"
                THEN [calls EXCEPT ![subject] = Append(@, <<q, r.answer>>)]
                ELSE calls
    /\ last' = [op |-> "query", subject |-> subject, question |-> q,
                outcome |-> r.outcome, fault |-> r.fault, caught |-> r.caught,
                answer |-> r.answer, eq |-> r.eq, retrievals |-> r.retrievals,
                completions |-> r.completions, before |-> memory, trace |-> << >>]

\* the session after meta_agent.route(q) gave r
Routed(q, r) ==
    /\ memory' = r.logs
    /\ last' = [op |-> "route", subject |-> "", question |-> q,
                outcome |-> r.outcome, fault |-> r.fault, caught |-> "",
                answer |-> r.answer, eq |-> None, retrievals |-> 0, completions |-> 0,
                before |-> memory, trace |-> r.trace]

\* the Ask button of a subject tab, shown for the subjects of
\* textbooks_uploaded: st.session_state.agents[subject].query(q), a KeyError
\* when agents has no such key
AskSubject(subject, q, env) ==
    /\ textbooks_uploaded[subject]
    /\ Strip(q) # << >>
    /\ IF subject \in agents
       THEN /\ SumLen(memory, Subjects) + 2 <= MaxLog
            /\ Asked(subject, q, QueryRun(subject, memory[subject], q, env))
       ELSE /\ last' = [NoCall EXCEPT !.op = "ask", !.subject = subject, !.question = q,
                                      !.outcome = "raised", !.fault = "KeyError",
                                      !.before = memory]
            /\ UNCHANGED <<memory, calls>>
    /\ UNCHANGED <<agents, textbooks_uploaded, uploaded_file_hashes, db, fnIn, fnOut>>

\* the Ask button of the Auto tab: meta_agent.route(q); meta_agent is the
\* MetaAgent built over st.session_state.agents when that is not empty, and
\* an undefined name (NameError) otherwise
AskAuto(q, env) ==
    /\ \E s \in Subjects : textbooks_uploaded[s]
    /\ Strip(q) # << >>
    /\ IF agents # {}
       THEN /\ Routed(q, route(q, agents, memory, env))
            /\ UNCHANGED calls
       ELSE /\ last' = [NoCall EXCEPT !.op = "auto", !.question = q,
                                      !.outcome = "raised", !.fault = "NameError",
                                      !.before = memory]
            /\ UNCHANGED <<memory, calls>>
    /\ UNCHANGED <<agents, textbooks_uploaded, uploaded_file_hashes, db, fnIn, fnOut>>

Next ==
    \/ \E s \in Subjects, h \in FileHashes, l \in {"ok", "empty", "raise"} : Upload(s, h, l)
    \/ \E s \in Subjects : ClearSubject(s)
    \/ \E s \in Subjects, q \in Questions, env \in QueryEnvs : AskSubject(s, q, env)
    \/ \E q \in RouteQuestions, env \in RouteEnvs : AskAuto(q, env)

Spec == Init /\ [][Next]_vars

---------------------------------------------------------------------------
(* Properties of the session *)

UserMsg(q) == [type |-> "User", content |-> q]
AssistantMsg(a) == [type |-> "AI", content |-> a]

\* the log of the subject of the last query call is the log before it, then
\* the question, then the answer a
LoggedAnswer(a) ==
    memory[last.subject] =
        last.before[last.subject] \o <<UserMsg(last.question), AssistantMsg(a)>>

RefusalText(S) == <<"Sorry, I can only answer ", S, " questions.">>

\* the (subject, question) pairs of the model whose question fails the subject's filter
GateFailing ==
    {<<"Math", Q_what_is_love>>}
    \cup ({"English", "EVS"} \X {Q_2x_eq_10, Q_0x_eq_5, Q_hello_world, Q_what_is_love})

\* C1: a query whose question fails the subject's keyword filter returns
\* exactly "Sorry, I can only answer {S} questions.", appends the User message
\* and then that refusal as the one Assistant message, and uses neither the
\* solver's value, the retriever nor the completion service; the same holds of
\* the query a route call makes for such a sub-question
C1_GateRefusal ==
    /\ (/\ last.op = "query"
        /\ (<<last.subject, last.question>> \in GateFailing
            \/ GateRejects(last.subject, last.question)))
       => /\ last.outcome = "returned"
          /\ last.answer = RefusalText(last.subject)
          /\ LoggedAnswer(RefusalText(last.subject))
          /\ last.eq = None
          /\ last.retrievals = 0
          /\ last.completions = 0
    /\ \A i \in 1..Len(last.trace) :
          (last.trace[i].available
           /\ <<last.trace[i].subject, last.trace[i].sub_q>> \in GateFailing)
          => /\ last.trace[i].answer = RefusalText(last.trace[i].subject)
             /\ last.trace[i].retrievals = 0
             /\ last.trace[i].completions = 0

C1_Witness ==
    /\ last.op = "query"
    /\ last.subject = "Math"
    /\ last.question = Q_what_is_love
    /\ last.answer = <<"Sorry, I can only answer ", "Math", " questions.">>
    /\ Len(memory["Math"]) = 2

\* C2: no failure of a collaborator during query or route reaches the caller:
\* every query call and every route call returns a textual answer
C2_NoFailurePropagates ==
    last.op \in {"query", "route"} => last.outcome = "returned" /\ last.answer # None

RECURSIVE PairsLog(_)
\* the log made of the (question, answer) pairs in order
PairsLog(pairs) ==
    IF pairs = << >> THEN << >>
    ELSE <<UserMsg(pairs[1][1]), AssistantMsg(pairs[1][2])>> \o PairsLog(Tail(pairs))

\* C3: after any sequence of query calls on one agent its log is the
\* concatenation, in call order, of the pairs (User: question, Assistant: the
\* answer the call returned)
C3_LogIsPairs == \A s \in Subjects : memory[s] = PairsLog(calls[s])

\* C6: when the completion call fails during query the failure is caught, the
\* answer is "Error from model: " followed by the failure text, it is appended
\* to the log as the Assistant message, and it is returned
C6_CompletionFailureAnswered ==
    (last.op = "query" /\ last.caught # "")
    => /\ last.outcome = "returned"
       /\ last.answer = <<"Error from model: ", last.caught>>
       /\ LoggedAnswer(<<"Error from model: ", last.caught>>)
       /\ last.retrievals = 1
       /\ last.completions = 1

C6_Witness ==
    /\ last.op = "query"
    /\ last.caught = "model not found"
    /\ last.outcome = "returned"
    /\ last.answer = <<"Error from model: ", "model not found">>

\* the non-empty sub-questions of the questions typed into the Auto tab, in
\* the order they appear in the input
ExpectedParts(question) ==
    IF question = RQ_solve_and_read
    THEN << <<"s", "o", "l", "v", "e", " ", "2", "x", " ", "=", " ", "1", "0">>,
            <<"r", "e", "a", "d", " ", "a", " ", "p", "l", "a", "n", "t">> >>
    ELSE << <<"h", "e", "l", "l", "o", " ", "w", "o", "r", "l", "d">>,
            <<"w", "h", "a", "t", " ", "i", "s", " ", "l", "o", "v", "e">> >>

NotAvailableText(S) == <<"**Error**: ", S, " subject not available. Please upload the PDF.">>

RECURSIVE Separated(_)
\* the entries with "\n\n---\n\n" between them
Separated(entries) ==
    IF entries = << >> THEN << >>
    ELSE IF Len(entries) = 1 THEN entries[1]
    ELSE entries[1] \o <<"\n\n---\n\n">> \o Separated(Tail(entries))

\* C7: in route a sub-question classified to a subject with no registered
\* agent gives the inline "not available" entry and is not answered, and the
\* remaining sub-questions are still handled: the result of a route call that
\* returns has exactly one entry per non-empty sub-question, in input order
C7_OneEntryPerSubQuestion ==
    last.op = "route"
    => /\ Len(last.trace) <= Len(ExpectedParts(last.question))
       /\ \A i \in 1..Len(last.trace) :
             /\ last.trace[i].sub_q = ExpectedParts(last.question)[i]
             /\ last.trace[i].available = (last.trace[i].subject \in agents)
             /\ ~last.trace[i].available
                => /\ last.trace[i].entry = NotAvailableText(last.trace[i].subject)
                   /\ last.trace[i].answer = None
                   /\ last.trace[i].retrievals = 0
                   /\ last.trace[i].completions = 0
       /\ last.outcome = "returned"
          => /\ Len(last.trace) = Len(ExpectedParts(last.question))
             /\ last.answer =
                   Separated([i \in 1..Len(last.trace) |-> last.trace[i].entry])

\* a route call whose first sub-question has no agent and whose second is answered
C7_Witness ==
    /\ last.op = "route"
    /\ last.outcome = "returned"
    /\ Len(last.trace) = 2
    /\ ~last.trace[1].available
    /\ last.trace[2].available
    /\ last.trace[2].completions = 1

\* C8: routing is stateless: the log of the agent built for a routed
\* sub-question is empty when query is called, and a route call leaves the
\* logs of the registered agents unchanged
C8_RoutingStateless ==
    last.op = "route"
    => /\ memory = last.before
       /\ \A i \in 1..Len(last.trace) :
             last.trace[i].available => last.trace[i].fresh = << >>

\* a route call that queried twice a subject whose registered agent has a log
C8_Witness ==
    /\ last.op = "route"
    /\ Len(last.trace) = 2
    /\ last.trace[1].available
    /\ last.trace[2].available
    /\ last.trace[1].subject = last.trace[2].subject
    /\ Len(last.before[last.trace[1].subject]) = 2
    /\ memory = last.before

\* C10: in query on a Math agent whose question passed the filter, a value of
\* the solver (a solution or "No real solution found.") is recorded as the
\* Assistant message and returned at once, with no call to the retriever or
\* to the completion service; the same holds of the query of a route call
C10_SolverShortcut ==
    /\ (last.op = "query" /\ last.subject = "Math" /\ last.eq # None)
       => /\ last.outcome = "returned"
          /\ last.answer = last.eq
          /\ LoggedAnswer(last.eq)
          /\ last.retrievals = 0
          /\ last.completions = 0
    /\ (last.op = "query" /\ last.subject = "Math" /\ last.question = Q_2x_eq_10)
       => last.answer = <<"Solution: x = ", "[", "5", "]">>
    /\ (last.op = "query" /\ last.subject = "Math" /\ last.question = Q_0x_eq_5)
       => last.answer = <<"No real solution found.">>
    /\ \A i \in 1..Len(last.trace) :
          (/\ last.trace[i].available
           /\ last.trace[i].subject = "Math"
           /\ last.trace[i].sub_q = ExpectedParts(RQ_solve_and_read)[1])
          => /\ last.trace[i].answer = <<"Solution: x = ", "[", "5", "]">>
             /\ last.trace[i].retrievals = 0
             /\ last.trace[i].completions = 0

C10_Witness ==
    /\ last.op = "query"
    /\ last.subject = "Math"
    /\ last.question = Q_0x_eq_5
    /\ last.answer = <<"No real solution found.">>
    /\ last.retrievals = 0
    /\ Len(memory["Math"]) = 2

---------------------------------------------------------------------------
(* BaseAgent._solve_equation on its own: fnIn is the call, fnOut its value *)

SessionIdle ==
    /\ agents = {}
    /\ textbooks_uploaded = [s \in Subjects |-> FALSE]
    /\ uploaded_file_hashes = [s \in Subjects |-> NoHash]
    /\ db = {}
    /\ memory = [s \in Subjects |-> << >>]
    /\ calls = [s \in Subjects |-> << >>]
    /\ last = NoCall

\* the characters of the generated questions ("*" and "/" are left out)
EqAlphabet == {"0", "2", "x", "X", "=", "-", " ", "h"}

\* the calls: a Math agent on every text of at most MaxEqLen characters, and
\* every agent on the four written questions; lib as in SolutionText
SolveInputs ==
    {[subject |-> "Math", text |-> t, lib |-> lb]
        : t \in UNION {[1..n -> EqAlphabet] : n \in 0..MaxEqLen}, lb \in {"empty", "true"}}
    \cup
    {[subject |-> sb, text |-> t, lib |-> lb]
        : sb \in Subjects, t \in {Q_2x_eq_10, Q_x_eq_x, Q_hello_world, Q_0x_eq_5},
          lb \in {"empty", "true"}}

SolveInit ==
    /\ SessionIdle
    /\ fnIn \in SolveInputs
    /\ fnOut = << >>

SolveApply ==
    /\ fnOut = << >>
    /\ fnOut' = solve_equation(fnIn.subject, fnIn.text, fnIn.lib)
    /\ UNCHANGED <<agents, textbooks_uploaded, uploaded_file_hashes, db, memory, calls, last, fnIn>>

SolveSpec == SolveInit /\ [][SolveApply]_vars

Solved == fnOut # << >>

HasEquals(text) == \E i \in 1..Len(text) : text[i] = "="

\* C4 as stated: for a Math agent solve("2x = 10") returns "Solution: x = [5]",
\* solve("x = x") returns "No real solution found." and solve("hello world")
\* returns absent
C4_AsStated ==
    (Solved /\ fnIn.subject = "Math")
    => /\ fnIn.text = Q_2x_eq_10 => fnOut = <<"Solution: x = ", "[", "5", "]">>
       /\ fnIn.text = Q_x_eq_x => fnOut = <<"No real solution found.">>
       /\ fnIn.text = Q_hello_world => fnOut = None

\* C4 amended: for a Math agent solve("2x = 10") returns "Solution: x = [5]";
\* solve("x = x") returns absent, since no numeric right side follows the "=";
\* solve("0x = 5") returns "No real solution found."; solve("hello world"),
\* and every text without "=", returns absent; every value is absent, "No real
\* solution found." or starts with "Solution: x = "; another subject's solver
\* returns absent
C4_SolverExamples ==
    Solved
    => /\ (fnIn.subject = "Math" /\ fnIn.text = Q_2x_eq_10)
          => fnOut = <<"Solution: x = ", "[", "5", "]">>
       /\ (fnIn.subject = "Math" /\ fnIn.text = Q_x_eq_x) => fnOut = None
       /\ (fnIn.subject = "Math" /\ fnIn.text = Q_0x_eq_5)
          => fnOut = <<"No real solution found.">>
       /\ (fnIn.subject = "Math" /\ fnIn.text = Q_hello_world) => fnOut = None
       /\ ~HasEquals(fnIn.text) => fnOut = None
       /\ fnIn.subject # "Math" => fnOut = None
       /\ \/ fnOut = None
          \/ fnOut = <<"No real solution found.">>
          \/ fnOut[1] = "Solution: x = "

C4_Witness ==
    /\ fnIn.subject = "Math"
    /\ fnIn.text = Q_x_eq_x
    /\ fnOut = None

---------------------------------------------------------------------------
(* The hallucination check of query on its own: fnIn holds the completion,  *)
(* the retrieved chunk and the subject, fnOut the response after the check  *)

\* the completions: trimmed lengths around ResponseCheckLen, with or without
\* whitespace around, with or without "cannot find", with n words longer than
\* 3 characters (the words 1..n); the retrieved chunk: one that counts, with
\* the words cw longer than 3 characters
GroundInputs ==
    {[subject |-> sb,
      response |-> [id |-> "response", len |-> ln, pad |-> pd, disclaim |-> dc, words |-> 1..n],
      docs |-> <<[id |-> "chunk", len |-> MinChunkLen, pad |-> 0, words |-> cw]>>]
        : sb \in Subjects,
          ln \in {ResponseCheckLen - 1, ResponseCheckLen, ResponseCheckLen + 1},
          pd \in {0, 2}, dc \in BOOLEAN, n \in {0, 1, 9, 10, 11},
          cw \in {{}, {1}, {1, 2}, {50}}}

GroundInit ==
    /\ SessionIdle
    /\ fnIn \in GroundInputs
    /\ fnOut = << >>

GroundApply ==
    /\ fnOut = << >>
    /\ ~NotMeaningful(fnIn.docs)
    /\ fnOut' = Grounded(fnIn.subject, fnIn.response, ContextWords(fnIn.docs))
    /\ UNCHANGED <<agents, textbooks_uploaded, uploaded_file_hashes, db, memory, calls, last, fnIn>>

GroundSpec == GroundInit /\ [][GroundApply]_vars

Checked == fnOut # << >>

CannotFindText(S) == <<"I cannot find this information in the ", S, " textbook.">>

\* the words of the response that occur in the context
Shared == fnIn.response.words \cap fnIn.docs[1].words

\* less than 10% of the response's words occur in the context
LowOverlap ==
    /\ fnIn.response.words # {}
    /\ 100 * Cardinality(Shared) < 10 * Cardinality(fnIn.response.words)

---------------------------------------------------------------------------
(* MetaAgent._find_subject on its own: fnIn holds the words of the          *)
(* sub-question and its embedding, fnOut is <<subject, confidence>>         *)

W_Solve == <<"S", "o", "l", "v", "e">>
W_bread == <<"b", "r", "e", "a", "d">>
W_plant == <<"p", "l", "a", "n", "t">>
W_hello == <<"h", "e", "l", "l", "o">>

ClassifyWords == {W_Solve, W_bread, W_plant, W_hello}

\* the sub-questions: up to MaxWords different words
WordLists ==
    UNION {{ws \in [1..n -> ClassifyWords] : \A i, j \in 1..n : ws[i] = ws[j] => i = j}
              : n \in 0..MaxWords}

RECURSIVE JoinWords(_)
\* " ".join(ws)
JoinWords(ws) ==
    IF ws = << >> THEN << >>
    ELSE IF Len(ws) = 1 THEN ws[1]
    ELSE ws[1] \o <<" ">> \o JoinWords(Tail(ws))

\* embed_query of the sub-question
ClassifyVectors == {<<3, 4>>, <<-4, -3>>, <<4, 3>>, <<0, -5>>}

\* the subject vectors are those of the session, or three that lie within a
\* quarter turn of each other: (1,0), (0,1) and (3,4)
ClassifyInputs ==
    {[words |-> ws, q_vec |-> v, subject_vectors |-> sv]
        : ws \in WordLists, v \in ClassifyVectors,
          sv \in SubjectVectorChoices
                 \cup {[s \in Subjects |->
                          IF s = "Math" THEN <<1, 0>>
                          ELSE IF s = "English" THEN <<0, 1>> ELSE <<3, 4>>]}}

ClassifyInit ==
    /\ SessionIdle
    /\ fnIn \in ClassifyInputs
    /\ fnOut = << >>

ClassifyApply ==
    /\ fnOut = << >>
    /\ fnOut' = find_subject(JoinWords(fnIn.words), fnIn.q_vec, fnIn.subject_vectors)
    /\ UNCHANGED <<agents, textbooks_uploaded, uploaded_file_hashes, db, memory, calls, last, fnIn>>

ClassifySpec == ClassifyInit /\ [][ClassifyApply]_vars

Classify == fnOut # << >>

HasWord(w) == \E i \in 1..Len(fnIn.words) : fnIn.words[i] = w

\* the subject nearest to the embedding, with its cosine, for the subject
\* vectors (1,0), (0,1) and (-1,0) of the session, and for (1,0), (0,1), (3,4)
NearestSubject(v) ==
    IF fnIn.subject_vectors \in SubjectVectorChoices
    THEN CASE v = <<3, 4>> -> <<"English", 80>>
           [] v = <<-4, -3>> -> <<"EVS", 80>>
           [] v = <<4, 3>> -> <<"Math", 80>>
           [] v = <<0, -5>> -> <<"Math", 0>>
    ELSE CASE v = <<3, 4>> -> <<"EVS", 100>>
           [] v = <<-4, -3>> -> <<"English", -60>>
           [] v = <<4, 3>> -> <<"EVS", 96>>
           [] v = <<0, -5>> -> <<"Math", 0>>

\* C9: the keyword overrides come first, in the order Math, English, EVS,
\* whatever the similarities: a sub-question with a Math term ("Solve") is Math
\* with confidence 1.0 even with English or EVS terms in it; otherwise one with
\* an English term ("read", here inside "bread") is English with 1.0;
\* otherwise one with an EVS term ("plant") is EVS with 1.0; with no term the
\* subject of greatest similarity and that similarity are returned
C9_KeywordPrecedence ==
    Classify
    => fnOut = IF HasWord(W_Solve) THEN <<"Math", 100>>
               ELSE IF HasWord(W_bread) THEN <<"English", 100>>
               ELSE IF HasWord(W_plant) THEN <<"EVS", 100>>
               ELSE NearestSubject(fnIn.q_vec)

\* a sub-question with an English, an EVS and then a Math term, embedded nearest to EVS
C9_Witness ==
    /\ fnIn.words = <<W_bread, W_plant, W_Solve>>
    /\ fnIn.q_vec = <<-4, -3>>
    /\ fnOut = <<"Math", 100>>

\* a keyword override applies to the sub-question
Overridden == HasWord(W_Solve) \/ HasWord(W_bread) \/ HasWord(W_plant)

\* the cosine, in hundredths, of the embedding and the vector of subject s
CosineTo(s) ==
    (100 * (fnIn.q_vec[1] * fnIn.subject_vectors[s][1]
            + fnIn.q_vec[2] * fnIn.subject_vectors[s][2]))
    \div (5 * (IF fnIn.subject_vectors[s] = <<3, 4>> THEN 5 ELSE 1))

\* C12: every confidence that _find_subject returns lies in [0,1]: it is 1.0
\* on a keyword override and otherwise the cosine similarity of the returned
\* subject, which no other subject exceeds, for every embedding of the
\* sub-question and every set of subject vectors
C12_ConfidenceInUnitInterval ==
    Classify
    => /\ fnOut[2] \in 0..100
       /\ Overridden => fnOut[2] = 100
       /\ ~Overridden
          => /\ fnOut[2] = CosineTo(fnOut[1])
             /\ \A s \in Subjects : CosineTo(s) <= fnOut[2]

---------------------------------------------------------------------------
(* BaseAgent.query on its own: fnIn holds the agent's subject and log, the  *)
(* question and what the collaborators do; fnOut is <<result>>              *)

\* the calls: every subject and question, on an empty log or on one that
\* holds an earlier exchange; the retriever raises or returns up to MaxDocs
\* chunks (blank, trimmed to 29 characters inside whitespace, of 30 and of 31
\* characters); the completion service raises or returns a response
QueryInputs ==
    {[subject |-> sb,
      messages |-> IF prior
                   THEN add_ai_message(add_user_message(<< >>, Q_hello_world),
                                       NoInformation(sb))
                   ELSE << >>,
      question |-> q,
      env |-> [lib |-> "empty", retrieval |-> rt, docs |-> d, llm |-> lm,
               err |-> "connection refused", response |-> r]]
        : sb \in Subjects,
          prior \in BOOLEAN,
          q \in Questions,
          rt \in {"ok", "raise"},
          d \in UNION {[1..n ->
                          {[id |-> "blank", len |-> 0, pad |-> 3, words |-> {}],
                           [id |-> "chunk-29", len |-> MinChunkLen - 1, pad |-> 2, words |-> {1}],
                           [id |-> "chunk-30", len |-> MinChunkLen, pad |-> 0, words |-> {1, 2}],
                           [id |-> "chunk-31", len |-> MinChunkLen + 1, pad |-> 2, words |-> {3}]}]
                          : n \in 0..MaxDocs},
          lm \in {"ok", "raise"},
          r \in {RespShort, RespLongOff}}

QueryInit ==
    /\ SessionIdle
    /\ fnIn \in QueryInputs
    /\ fnOut = << >>

QueryApply ==
    /\ fnOut = << >>
    /\ fnOut' = <<QueryRun(fnIn.subject, fnIn.messages, fnIn.question, fnIn.env)>>
    /\ UNCHANGED <<agents, textbooks_uploaded, uploaded_file_hashes, db, memory, calls, last, fnIn>>

QuerySpec == QueryInit /\ [][QueryApply]_vars

\* the call returned after its retriever gave the chunks fnIn.env.docs
Retrieved ==
    /\ fnOut # << >>
    /\ fnOut[1].retrievals = 1
    /\ fnIn.env.retrieval = "ok"

\* some retrieved chunk has a trimmed text of 30 characters or more
SomeChunkCounts == \E i \in 1..Len(fnIn.env.docs) : fnIn.env.docs[i].len >= 30

NoInformationText(S) ==
    <<"Sorry, I don't have information on this topic in the ", S, " textbook.">>

\* C11: in query, when the retriever returns no chunk, or only chunks whose
\* trimmed text is shorter than 30 characters, the call returns "Sorry, I
\* don't have information on this topic in the {subject} textbook.", appends
\* it as the Assistant message after the User message and does not call the
\* completion service; the completion service is called only when some chunk
\* has a trimmed text of 30 characters or more, and then it is called
C11_NoInformation ==
    Retrieved
    => /\ ~SomeChunkCounts
          => /\ fnOut[1].outcome = "returned"
             /\ fnOut[1].answer = NoInformationText(fnIn.subject)
             /\ fnOut[1].messages =
                   fnIn.messages
                   \o <<UserMsg(fnIn.question), AssistantMsg(NoInformationText(fnIn.subject))>>
             /\ fnOut[1].completions = 0
       /\ fnOut[1].completions = 1 <=> SomeChunkCounts

\* the retriever gave a blank chunk and one of 29 characters inside whitespace
C11_Witness ==
    /\ Retrieved
    /\ Len(fnIn.env.docs) = 2
    /\ fnIn.env.docs[1].id = "blank"
    /\ fnIn.env.docs[2].id = "chunk-29"
    /\ fnIn.messages # << >>
    /\ fnOut[1].answer = NoInformationText(fnIn.subject)
    /\ fnOut[1].completions = 0

---------------------------------------------------------------------------
(* The Streamlit session on its own: the sidebar loop with two files per    *)
(* subject and a disk that may hold the databases of an earlier session,    *)
(* the Clear buttons and the Ask buttons with one behaviour of the          *)
(* collaborators                                                            *)

UiInit ==
    /\ agents = {}
    /\ textbooks_uploaded = [s \in Subjects |-> FALSE]
    /\ uploaded_file_hashes = [s \in Subjects |-> NoHash]
    /\ db \in SUBSET Subjects
    /\ memory = [s \in Subjects |-> << >>]
    /\ calls = [s \in Subjects |-> << >>]
    /\ last = NoCall
    /\ fnIn = << >>
    /\ fnOut = << >>

UiNext ==
    \/ \E s \in Subjects, h \in FileHashes \cup {"pdf-b"},
          l \in {"ok", "empty", "raise", "raise_agent"} : Upload(s, h, l)
    \/ \E s \in Subjects, l \in {"ok", "none", "raise"} : Rerun(s, l)
    \/ \E s \in Subjects : ClearSubject(s)
    \/ \E s \in Subjects, env \in {e \in QueryEnvs : e.docs = << >> /\ e.retrieval = "ok"} :
          AskSubject(s, Q_hello_world, env)
    \/ \E env \in {e \in RouteEnvs : e.embed = "ok" /\ e.construct = "ok"
                                     /\ e.q_vecs[1] = <<3, 4>> /\ e.q_vecs[2] = <<3, 4>>
                                     /\ e.service.retrieval = "ok"
                                     /\ e.service.docs = << >>} :
          AskAuto(RQ_hello_love, env)

UiSpec == UiInit /\ [][UiNext]_vars

\* C13: after any sequence of UI events (upload of a new file that succeeds,
\* yields no documents or raises; a run without upload; Clear), whenever
\* textbooks_uploaded[S] is true an agent for S is registered in agents, so
\* the Ask button of a subject never looks up a missing agent and the Ask
\* button of the Auto tab never uses an undefined MetaAgent
C13_UploadedHasAgent ==
    /\ \A S \in Subjects : textbooks_uploaded[S] => S \in agents
    /\ last.fault \notin {"KeyError", "NameError"}

====
